---- MODULE Spec2Model ----
(***************************************************************************)
(* NIP-46 remote-signer pairing and signer hot-swap of rust-nostr-mcp.     *)
(*                                                                         *)
(* Nip46Session (src/src/nip46.rs) holds the pairing state machine and the *)
(* NostrConnect signer; NostrClient (src/src/nostr_client.rs) holds the    *)
(* write gate (has_write_access, public_key, nip46_active, the signer      *)
(* installed in the SDK client); ToolExecutor (src/src/tools.rs) has the   *)
(* three tool handlers nostr_connect, nostr_connect_status and             *)
(* nostr_disconnect and spawns the background monitor task.                *)
(*                                                                         *)
(* McpServer::run handles one request at a time (src/src/mcp.rs:141-167),  *)
(* so there is one request handler, whose position is req.pc; every        *)
(* lock-protected section of a handler is one step.  The monitor tasks are *)
(* spawned with tokio::spawn and interleave with the handler at every      *)
(* await.                                                                  *)
(*                                                                         *)
(* Nip46Session::wait_for_connection (nip46.rs:213-242) and                *)
(* Nip46Session::state / get_signer are #[allow(dead_code)]: no code of    *)
(* the program calls them, so Spec, the program as it is wired, has no     *)
(* action for them.  Nip46State::Error is constructed nowhere.             *)
(***************************************************************************)
EXTENDS Integers, FiniteSets, Sequences, TLC

\* ---- bounds ---------------------------------------------------------------
MaxSigners  == 2   \* NostrConnect instances alive at one time
MaxMonitors == 2   \* monitor tasks spawned in one run
MaxPolls    == 2   \* iterations of the monitor loop (60 in tools.rs:1123)
MaxAttempts == 3   \* nostr_connect calls in one run
MaxRelays   == 3   \* entries of Nip46Config.relays

\* ---- numbers of the source ----------------------------------------------------
DEFAULT_NIP46_TIMEOUT_SECS == 120   \* nip46.rs:25
MonitorIterations == 60             \* for _ in 0..60 (tools.rs:1123)
MonitorSleepSecs == 2               \* Duration::from_secs(2) (tools.rs:1124)

\* ---- values ---------------------------------------------------------------
NoSigner  == 0                 \* Option<NostrConnect>::None / Client without signer
LocalKeys == -1                \* the Keys signer of Client::new(keys)
NoPubkey  == "None"            \* Option<PublicKey>::None
LocalPk   == "pkLocal"         \* keys.public_key() of the configured secret key
RemotePks == {"pkA", "pkB"}    \* identities a remote signer may disclose
ConnectUri == "nostrconnect://app"  \* uri.to_string(): app_keys and relays are fixed per session
QrPng      == "qr(nostrconnect://app)"

SignerIds  == 1..MaxSigners
MonitorIds == 1..MaxMonitors

\* ---- Nip46State (nip46.rs:39-56) -------------------------------------------
Disconnected == [tag |-> "Disconnected"]
WaitingForConnection(u, q) ==
    [tag |-> "WaitingForConnection", connect_uri |-> u, qr_base64 |-> q]
Connected(pk) == [tag |-> "Connected", user_pubkey |-> pk]
Error(msg) == [tag |-> "Error", message |-> msg]

VARIABLES
    state,             \* Nip46Session.state
    signer,            \* Nip46Session.signer (NoSigner or a signer id)
    client_signer,     \* signer installed in NostrClient.client
    has_write_access,  \* NostrClient.has_write_access
    public_key,        \* NostrClient.public_key
    nip46_active,      \* NostrClient.nip46_active
    local_key,         \* config.secret_key.is_some()
    confirmed,         \* signer ids whose pairing the remote signer has confirmed
    client_lock,       \* the tokio RwLock around NostrClient: its holders
    shut,              \* signer ids on which NostrConnect::shutdown was called
    req,               \* the request handler: position and locals
    response,          \* the result of the last tool call; NoResponse during a call
    log,               \* the warn! lines written while handling the last request
    mon,               \* the spawned monitor tasks: position and locals
    spawned,           \* number of monitor tasks spawned so far
    attempt,           \* history: number of nostr_connect calls begun
    ended,             \* history: nostr_disconnect returned and no nostr_connect began since
    polling            \* history: monitors that were polling when their attempt was confirmed

session == <<state, signer>>
gate == <<client_signer, has_write_access, public_key, nip46_active>>
hist == <<attempt, ended, polling>>
env == <<local_key, confirmed, client_lock>>
vars == <<state, signer, client_signer, has_write_access, public_key,
          nip46_active, local_key, confirmed, client_lock, shut, req,
          response, log, mon, spawned, attempt, ended, polling>>

\* the RwLock with no holder
Unlocked == [writer |-> {}, readers |-> {}]

NoConn == [status |-> "none"]
Idle == [pc |-> "idle", signer |-> NoSigner, pubkey |-> NoPubkey, conn |-> NoConn]
NoResponse == [op |-> "none"]
NotSpawned == [pc |-> "none", polls |-> 0, signer |-> NoSigner,
               pubkey |-> NoPubkey, attempt |-> 0]

\* ---- pure readers -----------------------------------------------------------
\* Nip46Session::is_connected
is_connected == state.tag = "Connected"

\* Nip46Session::connected_pubkey
connected_pubkey == IF state.tag = "Connected" THEN state.user_pubkey ELSE NoPubkey

\* Nip46Session::get_nostr_connect
get_nostr_connect == signer

status_json_error_as_disconnected ==
    CASE state.tag = "Disconnected" -> [status |-> "disconnected"]
      [] state.tag = "WaitingForConnection" ->
            [status |-> "waiting", connect_uri |-> state.connect_uri,
             qr_base64 |-> state.qr_base64]
      [] state.tag = "Connected" ->
            [status |-> "connected", user_pubkey |-> state.user_pubkey]
      [] state.tag = "Error" -> [status |-> "disconnected"]

\* Nip46Session::status_json (the fixed message texts are left out)
status_json ==
    CASE state.tag = "Disconnected" -> [status |-> "disconnected"]
      [] state.tag = "WaitingForConnection" ->
            [status |-> "waiting", connect_uri |-> state.connect_uri,
             qr_base64 |-> state.qr_base64]
      [] state.tag = "Connected" ->
            [status |-> "connected", user_pubkey |-> state.user_pubkey]
      [] state.tag = "Error" -> [status |-> "error", message |-> state.message]

\* NostrClient::is_nip46_active
is_nip46_active == nip46_active

\* ---- the gate (NostrClient) ---------------------------------------------------
\* NostrClient::new: the three gate fields follow config.secret_key
NewClient(hasKey) ==
    /\ client_signer = IF hasKey THEN LocalKeys ELSE NoSigner
    /\ has_write_access = hasKey
    /\ public_key = IF hasKey THEN LocalPk ELSE NoPubkey
    /\ nip46_active = FALSE

enable_nip46_signer_toggles(s, user_pubkey) ==
    /\ client_signer' = s
    /\ has_write_access' = TRUE
    /\ public_key' = user_pubkey
    /\ nip46_active' = ~nip46_active

\* NostrClient::enable_nip46_signer, run under the client write lock
enable_nip46_signer(s, user_pubkey) ==
    /\ client_signer' = s
    /\ has_write_access' = TRUE
    /\ public_key' = user_pubkey
    /\ nip46_active' = TRUE

disable_nip46_signer_keeps_pubkey ==
    IF nip46_active
    THEN /\ nip46_active' = FALSE
         /\ has_write_access' = FALSE
         /\ UNCHANGED <<public_key, client_signer>>
    ELSE UNCHANGED gate

disable_nip46_signer_unconditional ==
    /\ nip46_active' = FALSE
    /\ has_write_access' = FALSE
    /\ public_key' = NoPubkey
    /\ UNCHANGED client_signer

\* NostrClient::disable_nip46_signer, run under the client write lock
disable_nip46_signer ==
    IF nip46_active
    THEN /\ nip46_active' = FALSE
         /\ has_write_access' = FALSE
         /\ public_key' = NoPubkey
         /\ UNCHANGED client_signer
    ELSE UNCHANGED gate

\* ---- Init: the state after McpServer::new -------------------------------------
\* Nip46Session::new, then the bunker auto-connect of McpServer::new (a failed
\* one is only logged), then NostrClient::new.
Init ==
    /\ local_key \in BOOLEAN
    /\ NewClient(local_key)
    /\ \/ /\ state = Disconnected
          /\ signer = NoSigner
       \/ /\ \E pk \in RemotePks : state = Connected(pk)
          /\ signer = 1
    /\ confirmed = {}
    /\ client_lock = Unlocked
    /\ polling = {}
    /\ shut = {}
    /\ req = Idle
    /\ response = NoResponse
    /\ log = {}
    /\ mon = [i \in MonitorIds |-> NotSpawned]
    /\ spawned = 0
    /\ attempt = 0
    /\ ended = FALSE

\* ---- nostr_connect with bunker_uri (tools.rs:1096-1112) -----------------------
\* Every nostr_connect call starts a new attempt.
BeginAttempt ==
    /\ attempt < MaxAttempts
    /\ attempt' = attempt + 1
    /\ ended' = FALSE
    /\ confirmed' = {}
    /\ polling' = {}

\* The NostrConnect instances some Arc still points to: the session's, the
\* client's, the one the request handler is working on, and the ones running
\* monitors have captured. Any other instance has been dropped.
LiveSigners ==
    ({signer, client_signer, req.signer}
        \cup {mon[i].signer : i \in {j \in MonitorIds :
                                       mon[j].pc \in {"get_pubkey", "enable",
                                                      "wfc_get_public_key"}}})
    \ {NoSigner, LocalKeys}

FreeSigners == SignerIds \ LiveSigners

\* NostrConnect::new: a new instance takes the lowest identifier not in use
NewSigner == CHOOSE s \in FreeSigners : \A t \in FreeSigners : s <= t

ConnectError(mode) == [op |-> "nostr_connect", mode |-> mode, success |-> FALSE]

\* start_bunker_connect: NostrConnectURI::parse or NostrConnect::new fails and
\* `?` returns the error through nostr_connect.
start_bunker_connect_parse_err ==
    /\ req.pc = "idle"
    /\ BeginAttempt
    /\ response' = ConnectError("bunker")
    /\ log' = {}
    /\ UNCHANGED <<session, gate, local_key, client_lock, shut, req,
                   mon, spawned>>

\* start_bunker_connect: the signer is created and get_public_key is awaited.
start_bunker_connect_begin ==
    /\ req.pc = "idle"
    /\ FreeSigners # {}
    /\ BeginAttempt
    /\ req' = [req EXCEPT !.pc = "bunker_probe", !.signer = NewSigner]
    /\ shut' = shut \ {NewSigner}
    /\ response' = NoResponse
    /\ log' = {}
    /\ UNCHANGED <<session, gate, local_key, client_lock, mon, spawned>>

start_bunker_connect_probe_err_activates ==
    /\ req.pc = "bunker_probe"
    /\ response' = ConnectError("bunker")
    /\ req' = Idle
    /\ IF get_nostr_connect # NoSigner /\ connected_pubkey # NoPubkey
       THEN enable_nip46_signer(get_nostr_connect, connected_pubkey)
       ELSE UNCHANGED gate
    /\ UNCHANGED <<session, env, shut, log, mon, spawned, hist>>

\* start_bunker_connect: get_public_key fails; the local signer is dropped and
\* `?` returns the error through nostr_connect.
start_bunker_connect_probe_err ==
    /\ req.pc = "bunker_probe"
    /\ response' = ConnectError("bunker")
    /\ req' = Idle
    /\ UNCHANGED <<session, gate, env, shut, log, mon, spawned, hist>>

\* start_bunker_connect: get_public_key returns the user's public key.
start_bunker_connect_probe_ok ==
    /\ req.pc = "bunker_probe"
    /\ \E pk \in RemotePks :
          req' = [req EXCEPT !.pc = "bunker_store_signer", !.pubkey = pk]
    /\ UNCHANGED <<session, gate, env, shut, response, log, mon,
                   spawned, hist>>

\* start_bunker_connect: *signer_lock = Some(signer)
start_bunker_connect_store_signer ==
    /\ req.pc = "bunker_store_signer"
    /\ signer' = req.signer
    /\ req' = [req EXCEPT !.pc = "bunker_store_state"]
    /\ UNCHANGED <<state, gate, env, shut, response, log, mon,
                   spawned, hist>>

\* start_bunker_connect: *state = Connected { user_pubkey }
start_bunker_connect_store_state ==
    /\ req.pc = "bunker_store_state"
    /\ state' = Connected(req.pubkey)
    /\ req' = [req EXCEPT !.pc = "activate_get_signer", !.signer = NoSigner,
                          !.pubkey = NoPubkey]
    /\ UNCHANGED <<signer, gate, env, shut, response, log, mon,
                   spawned, hist>>

start_bunker_connect ==
    \/ start_bunker_connect_parse_err
    \/ start_bunker_connect_begin
    \/ start_bunker_connect_probe_err
    \/ start_bunker_connect_probe_ok
    \/ start_bunker_connect_store_signer
    \/ start_bunker_connect_store_state

\* activate_nip46_signer: get_nostr_connect
activate_get_signer ==
    /\ req.pc = "activate_get_signer"
    /\ req' = IF get_nostr_connect # NoSigner
              THEN [req EXCEPT !.pc = "activate_get_pubkey",
                               !.signer = get_nostr_connect]
              ELSE [req EXCEPT !.pc = "bunker_status"]
    /\ UNCHANGED <<session, gate, env, shut, response, log, mon,
                   spawned, hist>>

\* activate_nip46_signer: connected_pubkey
activate_get_pubkey ==
    /\ req.pc = "activate_get_pubkey"
    /\ req' = IF connected_pubkey # NoPubkey
              THEN [req EXCEPT !.pc = "activate_enable",
                               !.pubkey = connected_pubkey]
              ELSE [req EXCEPT !.pc = "bunker_status"]
    /\ UNCHANGED <<session, gate, env, shut, response, log, mon,
                   spawned, hist>>

\* activate_nip46_signer: client.write() and enable_nip46_signer
activate_enable ==
    /\ req.pc = "activate_enable"
    /\ enable_nip46_signer(req.signer, req.pubkey)
    /\ req' = [req EXCEPT !.pc = "bunker_status"]
    /\ UNCHANGED <<session, env, shut, response, log, mon,
                   spawned, hist>>

activate_nip46_signer ==
    \/ activate_get_signer
    \/ activate_get_pubkey
    \/ activate_enable

nostr_connect_bunker_result_spawns ==
    /\ req.pc = "bunker_status"
    /\ response' = [op |-> "nostr_connect", mode |-> "bunker", success |-> TRUE,
                    status |-> status_json.status,
                    user_pubkey |-> IF status_json.status = "connected"
                                    THEN status_json.user_pubkey ELSE NoPubkey]
    /\ req' = Idle
    /\ IF spawned < MaxMonitors
       THEN /\ spawned' = spawned + 1
            /\ mon' = [mon EXCEPT ![spawned + 1] =
                          [pc |-> "sleep", polls |-> 0, signer |-> NoSigner,
                           pubkey |-> NoPubkey, attempt |-> attempt]]
       ELSE UNCHANGED <<mon, spawned>>
    /\ UNCHANGED <<session, gate, env, shut, log, hist>>

\* nostr_connect, bunker branch: status_json and the success result
nostr_connect_bunker_result ==
    /\ req.pc = "bunker_status"
    /\ response' = [op |-> "nostr_connect", mode |-> "bunker", success |-> TRUE,
                    status |-> status_json.status,
                    user_pubkey |-> IF status_json.status = "connected"
                                    THEN status_json.user_pubkey ELSE NoPubkey]
    /\ req' = Idle
    /\ UNCHANGED <<session, gate, env, shut, log, mon, spawned, hist>>

\* ---- nostr_connect without bunker_uri (tools.rs:1113-1149) --------------------
start_client_connect_err_resets ==
    /\ req.pc = "idle"
    /\ BeginAttempt
    /\ response' = ConnectError("client")
    /\ log' = {}
    /\ state' = Disconnected
    /\ signer' = NoSigner
    /\ UNCHANGED <<gate, local_key, client_lock, shut, req, mon, spawned>>

\* start_client_connect: parse_relay_urls, generate_qr_base64 or
\* NostrConnect::new fails and `?` returns the error through nostr_connect.
start_client_connect_err ==
    /\ req.pc = "idle"
    /\ BeginAttempt
    /\ response' = ConnectError("client")
    /\ log' = {}
    /\ UNCHANGED <<session, gate, local_key, client_lock, shut, req,
                   mon, spawned>>

\* start_client_connect: the URI, the QR code and the signer are built.
start_client_connect_begin ==
    /\ req.pc = "idle"
    /\ FreeSigners # {}
    /\ spawned < MaxMonitors
    /\ BeginAttempt
    /\ req' = [req EXCEPT !.pc = "client_store_signer", !.signer = NewSigner]
    /\ shut' = shut \ {NewSigner}
    /\ response' = NoResponse
    /\ log' = {}
    /\ UNCHANGED <<session, gate, local_key, client_lock, mon, spawned>>

\* start_client_connect: *signer_lock = Some(signer)
start_client_connect_store_signer ==
    /\ req.pc = "client_store_signer"
    /\ signer' = req.signer
    /\ req' = [req EXCEPT !.pc = "client_store_state", !.signer = NoSigner]
    /\ UNCHANGED <<state, gate, env, shut, response, log, mon,
                   spawned, hist>>

\* Nip46ConnectResult { connect_uri: uri_string, qr_base64 }
ConnectResult == [connect_uri |-> ConnectUri, qr_base64 |-> QrPng]

start_client_connect_store_state_connected ==
    /\ req.pc = "client_store_state"
    /\ state' = Connected("pkA")
    /\ req' = [req EXCEPT !.pc = "client_spawn", !.conn = ConnectResult]
    /\ UNCHANGED <<signer, gate, env, shut, response, log, mon,
                   spawned, hist>>

start_client_connect_store_state_swapped ==
    /\ req.pc = "client_store_state"
    /\ state' = WaitingForConnection(QrPng, ConnectUri)
    /\ req' = [req EXCEPT !.pc = "client_spawn", !.conn = ConnectResult]
    /\ UNCHANGED <<signer, gate, env, shut, response, log, mon,
                   spawned, hist>>

\* start_client_connect: *state = WaitingForConnection { connect_uri, qr_base64 }
\* and Ok(Nip46ConnectResult { .. })
start_client_connect_store_state ==
    /\ req.pc = "client_store_state"
    /\ state' = WaitingForConnection(ConnectUri, QrPng)
    /\ req' = [req EXCEPT !.pc = "client_spawn", !.conn = ConnectResult]
    /\ UNCHANGED <<signer, gate, env, shut, response, log, mon,
                   spawned, hist>>

start_client_connect ==
    \/ start_client_connect_err
    \/ start_client_connect_begin
    \/ start_client_connect_store_signer
    \/ start_client_connect_store_state

\* nostr_connect, client branch: tokio::spawn of the monitor and the result
nostr_connect_client_spawn ==
    /\ req.pc = "client_spawn"
    /\ spawned' = spawned + 1
    /\ mon' = [mon EXCEPT ![spawned + 1] =
                  [pc |-> "sleep", polls |-> 0, signer |-> NoSigner,
                   pubkey |-> NoPubkey, attempt |-> attempt]]
    /\ response' = [op |-> "nostr_connect", mode |-> "client", success |-> TRUE,
                    status |-> "waiting", connect_uri |-> req.conn.connect_uri,
                    qr_base64 |-> req.conn.qr_base64]
    /\ req' = Idle
    /\ UNCHANGED <<session, gate, env, shut, log, hist>>

nostr_connect ==
    \/ start_bunker_connect
    \/ activate_nip46_signer
    \/ nostr_connect_bunker_result
    \/ start_client_connect
    \/ nostr_connect_client_spawn

\* ---- the monitor task (tools.rs:1121-1139) -------------------------------------
monitor_poll_restarts(i) ==
    /\ mon[i].pc = "sleep"
    /\ mon' = [mon EXCEPT ![i] =
                  IF is_connected
                  THEN [@ EXCEPT !.pc = "get_signer", !.polls = 0]
                  ELSE IF mon[i].polls + 1 >= MaxPolls
                       THEN [@ EXCEPT !.polls = 0]
                       ELSE [@ EXCEPT !.polls = @ + 1]]
    /\ UNCHANGED <<session, gate, env, shut, req, response, log,
                   spawned, hist>>

\* one iteration: sleep 2 s, then session.is_connected()
monitor_poll(i) ==
    /\ mon[i].pc = "sleep"
    /\ mon' = [mon EXCEPT ![i] =
                  IF is_connected
                  THEN [@ EXCEPT !.pc = "get_signer", !.polls = 0]
                  ELSE IF mon[i].polls + 1 >= MaxPolls
                       THEN [@ EXCEPT !.pc = "exhausted", !.polls = 0]
                       ELSE [@ EXCEPT !.polls = @ + 1]]
    /\ UNCHANGED <<session, gate, env, shut, req, response, log,
                   spawned, hist>>

\* session.get_nostr_connect(); None falls through to break
monitor_get_signer(i) ==
    /\ mon[i].pc = "get_signer"
    /\ mon' = [mon EXCEPT ![i] =
                  IF get_nostr_connect # NoSigner
                  THEN [@ EXCEPT !.pc = "get_pubkey", !.signer = get_nostr_connect]
                  ELSE [@ EXCEPT !.pc = "done"]]
    /\ UNCHANGED <<session, gate, env, shut, req, response, log,
                   spawned, hist>>

\* session.connected_pubkey(); None falls through to break
monitor_get_pubkey(i) ==
    /\ mon[i].pc = "get_pubkey"
    /\ mon' = [mon EXCEPT ![i] =
                  IF connected_pubkey # NoPubkey
                  THEN [@ EXCEPT !.pc = "enable", !.pubkey = connected_pubkey]
                  ELSE [@ EXCEPT !.pc = "done"]]
    /\ UNCHANGED <<session, gate, env, shut, req, response, log,
                   spawned, hist>>

monitor_enable_keeps_polling(i) ==
    /\ mon[i].pc = "enable"
    /\ enable_nip46_signer(mon[i].signer, mon[i].pubkey)
    /\ mon' = [mon EXCEPT ![i] = [@ EXCEPT !.pc = "sleep"]]
    /\ UNCHANGED <<session, env, shut, req, response, log,
                   spawned, hist>>

\* client.write(), enable_nip46_signer, break
monitor_enable(i) ==
    /\ mon[i].pc = "enable"
    /\ enable_nip46_signer(mon[i].signer, mon[i].pubkey)
    /\ mon' = [mon EXCEPT ![i] = [@ EXCEPT !.pc = "done"]]
    /\ UNCHANGED <<session, env, shut, req, response, log,
                   spawned, hist>>

monitor(i) ==
    \/ monitor_poll(i)
    \/ monitor_get_signer(i)
    \/ monitor_get_pubkey(i)
    \/ monitor_enable(i)

\* ---- nostr_connect_status (tools.rs:1164-1174) ----------------------------------
\* self.nip46_session.status_json()
nostr_connect_status_session ==
    /\ req.pc = "idle"
    /\ req' = [req EXCEPT !.pc = "status_gate", !.conn = status_json]
    /\ response' = NoResponse
    /\ log' = {}
    /\ UNCHANGED <<session, gate, env, shut, mon,
                   spawned, hist>>

nostr_connect_status_gate_activates ==
    /\ req.pc = "status_gate"
    /\ response' = [op |-> "nostr_connect_status", success |-> TRUE,
                    connection |-> req.conn, signer_active |-> is_nip46_active]
    /\ req' = Idle
    /\ IF get_nostr_connect # NoSigner /\ connected_pubkey # NoPubkey
       THEN enable_nip46_signer(get_nostr_connect, connected_pubkey)
       ELSE UNCHANGED gate
    /\ UNCHANGED <<session, env, shut, log, mon, spawned, hist>>

\* self.client.read().await.is_nip46_active() and the result
nostr_connect_status_gate ==
    /\ req.pc = "status_gate"
    /\ response' = [op |-> "nostr_connect_status", success |-> TRUE,
                    connection |-> req.conn, signer_active |-> is_nip46_active]
    /\ req' = Idle
    /\ UNCHANGED <<session, gate, env, shut, log, mon, spawned, hist>>

nostr_connect_status ==
    \/ nostr_connect_status_session
    \/ nostr_connect_status_gate

\* ---- nostr_disconnect (tools.rs:1177-1189) ---------------------------------------
\* Nip46Session::disconnect: signer_lock.take()
disconnect_take ==
    /\ req.pc = "idle"
    /\ req' = [req EXCEPT !.pc = IF signer # NoSigner THEN "disconnect_shutdown"
                                 ELSE "disconnect_state",
                          !.signer = signer]
    /\ signer' = NoSigner
    /\ response' = NoResponse
    /\ log' = {}
    /\ UNCHANGED <<state, gate, env, shut, mon, spawned,
                   hist>>

disconnect_shutdown_propagates ==
    /\ req.pc = "disconnect_shutdown"
    /\ \/ /\ shut' = shut \cup {req.signer}
          /\ req' = [req EXCEPT !.pc = "disconnect_state", !.signer = NoSigner]
          /\ UNCHANGED <<log, response>>
       \/ /\ shut' \in {shut, shut \cup {req.signer}}
          /\ log' = log \cup {"shutdown_error"}
          /\ response' = [op |-> "nostr_disconnect", success |-> FALSE]
          /\ req' = Idle
    /\ UNCHANGED <<session, gate, env, mon, spawned, hist>>

\* Nip46Session::disconnect: signer.shutdown(); an error is logged, not returned.
\* Whether a shutdown that reports an error has stopped the signer is not known.
disconnect_shutdown ==
    /\ req.pc = "disconnect_shutdown"
    /\ \/ /\ shut' = shut \cup {req.signer}
          /\ UNCHANGED log
       \/ /\ shut' \in {shut, shut \cup {req.signer}}
          /\ log' = log \cup {"shutdown_error"}
    /\ req' = [req EXCEPT !.pc = "disconnect_state", !.signer = NoSigner]
    /\ UNCHANGED <<session, gate, env, response, mon, spawned, hist>>

\* Nip46Session::disconnect: *state = Disconnected
disconnect_state ==
    /\ req.pc = "disconnect_state"
    /\ state' = Disconnected
    /\ req' = [req EXCEPT !.pc = "disconnect_gate", !.signer = NoSigner]
    /\ UNCHANGED <<signer, gate, env, shut, response, log, mon,
                   spawned, hist>>

disconnect ==
    \/ disconnect_take
    \/ disconnect_shutdown
    \/ disconnect_state

\* client.write(), disable_nip46_signer and the result
nostr_disconnect_gate ==
    /\ req.pc = "disconnect_gate"
    /\ disable_nip46_signer
    /\ response' = [op |-> "nostr_disconnect", success |-> TRUE]
    /\ ended' = TRUE
    /\ confirmed' = {}
    /\ polling' = {}
    /\ req' = Idle
    /\ UNCHANGED <<session, local_key, client_lock, shut, log, mon,
                   spawned, attempt>>

nostr_disconnect ==
    \/ disconnect
    \/ nostr_disconnect_gate

\* ---- a write-gated tool (tools.rs:694-705, nostr_client.rs:330-340) ---------------
\* NostrClient::require_write_access
require_write_access == has_write_access

NoWriteAccess == [op |-> "post_nostr_note", success |-> FALSE,
                  error |-> "no_write_access"]

\* ToolExecutor::post_note: self.client.read().await.post_note(content).await.
\* The read guard lives until the call returns, so no enable_nip46_signer or
\* disable_nip46_signer runs between require_write_access and the signing:
\* the call is one step.  send_event_builder signs with the signer installed
\* in the client; it can fail (relay, remote signer), and it fails when that
\* signer was shut down.  react_to_note, reply_to_note, send_zap, send_dm and
\* publish_article_event begin with the same require_write_access()? line
\* (nostr_client.rs:963, 985, 1238, 1293, 644).
post_note ==
    /\ req.pc = "idle"
    /\ client_lock = Unlocked
    /\ IF ~require_write_access
       THEN response' = NoWriteAccess
       ELSE \/ response' = [op |-> "post_nostr_note", success |-> FALSE,
                            error |-> "publish_failed"]
            \/ /\ client_signer \notin shut
               /\ response' = [op |-> "post_nostr_note", success |-> TRUE,
                               signed_by |-> client_signer]
    /\ log' = {}
    /\ UNCHANGED <<session, gate, env, shut, req, mon, spawned, hist>>

\* ---- the remote signer -----------------------------------------------------------
\* a monitor of the current attempt exists: the current attempt is a
\* generate-mode one whose bootstrap was returned
CurrentGenerate ==
    \E i \in MonitorIds : mon[i].pc # "none" /\ mon[i].attempt = attempt

\* The user scans the QR code of the current generate-mode attempt and the
\* remote signer answers on the relay.  Nothing in the program is listening:
\* NostrConnect bootstraps on its first get_public_key, which only
\* wait_for_connection would call (nip46.rs:225-228).
remote_confirm ==
    /\ CurrentGenerate
    /\ state.tag = "WaitingForConnection"
    /\ signer # NoSigner
    /\ signer \notin confirmed
    /\ confirmed' = confirmed \cup {signer}
    /\ polling' = polling \cup {i \in MonitorIds :
                                 mon[i].pc = "sleep" /\ mon[i].attempt = attempt}
    /\ UNCHANGED <<session, gate, local_key, client_lock, shut, req,
                   response, log, mon, spawned, attempt, ended>>

\* ---- the program ------------------------------------------------------------------
Next ==
    \/ nostr_connect
    \/ nostr_connect_status
    \/ nostr_disconnect
    \/ post_note
    \/ \E i \in MonitorIds : monitor(i)
    \/ remote_confirm

Spec == Init /\ [][Next]_vars

\* ---- the client lock, field by field ------------------------------------------------
\* In Spec a call of enable_nip46_signer or disable_nip46_signer, and a write-gated
\* tool call, is one step. SpecLock takes the same calls apart: client.write() or
\* client.read() is acquired, the fields are assigned one at a time in the order
\* of the source, and the guard is dropped. The session is left out; the
\* arguments of an activation are any signer and any identity.
ReqTask == 0   \* the request loop; the monitor tasks are 1..MaxMonitors
Tasks == {ReqTask} \cup MonitorIds

TaskPc(t) == IF t = ReqTask THEN req.pc ELSE mon[t].pc
TaskSigner(t) == IF t = ReqTask THEN req.signer ELSE mon[t].signer
TaskPubkey(t) == IF t = ReqTask THEN req.pubkey ELSE mon[t].pubkey

Goto(t, pc) ==
    IF t = ReqTask
    THEN req' = [req EXCEPT !.pc = pc] /\ UNCHANGED mon
    ELSE mon' = [mon EXCEPT ![t] = [@ EXCEPT !.pc = pc]] /\ UNCHANGED req

lock_frame == <<session, local_key, confirmed, shut, log, spawned, hist>>

\* the positions at which a task waits for client.write()
BeforeWrite == {"enable", "activate_enable", "disconnect_gate"}

\* the positions inside enable_nip46_signer and disable_nip46_signer
EnablePcs == {"set_signer", "set_has_write_access", "set_public_key",
              "set_nip46_active"}
DisablePcs == {"read_nip46_active", "clear_nip46_active",
               "clear_has_write_access", "clear_public_key"}
WritePcs == EnablePcs \cup DisablePcs \cup {"unlock"}

InitLock ==
    /\ local_key \in BOOLEAN
    /\ NewClient(local_key)
    /\ state = Disconnected
    /\ signer = NoSigner
    /\ confirmed = {}
    /\ client_lock = Unlocked
    /\ polling = {}
    /\ shut = {}
    /\ req = Idle
    /\ response = NoResponse
    /\ log = {}
    /\ mon \in [MonitorIds ->
                  {NotSpawned}
                  \cup {[pc |-> "enable", polls |-> 0, signer |-> s,
                         pubkey |-> pk, attempt |-> 0] :
                            s \in SignerIds, pk \in RemotePks}]
    /\ spawned = 0
    /\ attempt = 0
    /\ ended = FALSE

\* the request loop reaches activate_nip46_signer's client.write()
lock_activate_begin ==
    /\ req.pc = "idle"
    /\ \E s \in SignerIds, pk \in RemotePks :
          req' = [req EXCEPT !.pc = "activate_enable", !.signer = s, !.pubkey = pk]
    /\ response' = NoResponse
    /\ UNCHANGED <<gate, client_lock, mon, lock_frame>>

\* the request loop reaches nostr_disconnect's client.write()
lock_disconnect_begin ==
    /\ req.pc = "idle"
    /\ req' = [req EXCEPT !.pc = "disconnect_gate"]
    /\ response' = NoResponse
    /\ UNCHANGED <<gate, client_lock, mon, lock_frame>>

\* the request loop reaches post_note's client.read()
lock_post_begin ==
    /\ req.pc = "idle"
    /\ req' = [req EXCEPT !.pc = "post_note"]
    /\ response' = NoResponse
    /\ UNCHANGED <<gate, client_lock, mon, lock_frame>>

client_write_ignores_readers(t) ==
    /\ TaskPc(t) \in BeforeWrite
    /\ client_lock.writer = {}
    /\ client_lock' = [client_lock EXCEPT !.writer = {t}]
    /\ Goto(t, IF TaskPc(t) = "disconnect_gate" THEN "read_nip46_active"
               ELSE "set_signer")
    /\ UNCHANGED <<gate, response, lock_frame>>

client_write_ignores_writer(t) ==
    /\ TaskPc(t) \in BeforeWrite
    /\ client_lock.readers = {}
    /\ client_lock' = [client_lock EXCEPT !.writer = @ \cup {t}]
    /\ Goto(t, IF TaskPc(t) = "disconnect_gate" THEN "read_nip46_active"
               ELSE "set_signer")
    /\ UNCHANGED <<gate, response, lock_frame>>

\* client.write().await returns: nobody holds the lock
client_write(t) ==
    /\ TaskPc(t) \in BeforeWrite
    /\ client_lock = Unlocked
    /\ client_lock' = [client_lock EXCEPT !.writer = {t}]
    /\ Goto(t, IF TaskPc(t) = "disconnect_gate" THEN "read_nip46_active"
               ELSE "set_signer")
    /\ UNCHANGED <<gate, response, lock_frame>>

enable_set_signer_skipped(t) ==
    /\ TaskPc(t) = "set_signer"
    /\ Goto(t, "set_has_write_access")
    /\ UNCHANGED <<gate, client_lock, response, lock_frame>>

\* enable_nip46_signer: self.client.set_signer(signer).await
enable_set_signer(t) ==
    /\ TaskPc(t) = "set_signer"
    /\ client_signer' = TaskSigner(t)
    /\ Goto(t, "set_has_write_access")
    /\ UNCHANGED <<has_write_access, public_key, nip46_active, client_lock,
                   response, lock_frame>>

\* enable_nip46_signer: self.has_write_access = true
enable_set_has_write_access(t) ==
    /\ TaskPc(t) = "set_has_write_access"
    /\ has_write_access' = TRUE
    /\ Goto(t, "set_public_key")
    /\ UNCHANGED <<client_signer, public_key, nip46_active, client_lock,
                   response, lock_frame>>

\* enable_nip46_signer: self.public_key = Some(user_pubkey)
enable_set_public_key(t) ==
    /\ TaskPc(t) = "set_public_key"
    /\ public_key' = TaskPubkey(t)
    /\ Goto(t, "set_nip46_active")
    /\ UNCHANGED <<client_signer, has_write_access, nip46_active, client_lock,
                   response, lock_frame>>

\* enable_nip46_signer: *self.nip46_active.write().await = true
enable_set_nip46_active(t) ==
    /\ TaskPc(t) = "set_nip46_active"
    /\ nip46_active' = TRUE
    /\ Goto(t, "unlock")
    /\ UNCHANGED <<client_signer, has_write_access, public_key, client_lock,
                   response, lock_frame>>

\* disable_nip46_signer: let nip46_was_active = *self.nip46_active.read().await
disable_read_nip46_active ==
    /\ req.pc = "read_nip46_active"
    /\ req' = [req EXCEPT !.pc = IF nip46_active THEN "clear_nip46_active"
                                 ELSE "unlock"]
    /\ UNCHANGED <<gate, client_lock, response, mon, lock_frame>>

\* disable_nip46_signer: *self.nip46_active.write().await = false
disable_clear_nip46_active ==
    /\ req.pc = "clear_nip46_active"
    /\ nip46_active' = FALSE
    /\ req' = [req EXCEPT !.pc = "clear_has_write_access"]
    /\ UNCHANGED <<client_signer, has_write_access, public_key, client_lock,
                   response, mon, lock_frame>>

\* disable_nip46_signer: self.has_write_access = false
disable_clear_has_write_access ==
    /\ req.pc = "clear_has_write_access"
    /\ has_write_access' = FALSE
    /\ req' = [req EXCEPT !.pc = "clear_public_key"]
    /\ UNCHANGED <<client_signer, public_key, nip46_active, client_lock,
                   response, mon, lock_frame>>

\* disable_nip46_signer: self.public_key = None
disable_clear_public_key ==
    /\ req.pc = "clear_public_key"
    /\ public_key' = NoPubkey
    /\ req' = [req EXCEPT !.pc = "unlock"]
    /\ UNCHANGED <<client_signer, has_write_access, nip46_active, client_lock,
                   response, mon, lock_frame>>

\* client_guard is dropped: the monitor breaks, the request loop returns
client_unlock(t) ==
    /\ TaskPc(t) = "unlock"
    /\ client_lock' = [client_lock EXCEPT !.writer = @ \ {t}]
    /\ IF t = ReqTask
       THEN req' = Idle /\ UNCHANGED mon
       ELSE mon' = [mon EXCEPT ![t] = [@ EXCEPT !.pc = "done"]] /\ UNCHANGED req
    /\ UNCHANGED <<gate, response, lock_frame>>

\* self.client.read().await returns: nobody holds the write guard
client_read ==
    /\ req.pc = "post_note"
    /\ client_lock.writer = {}
    /\ client_lock' = [client_lock EXCEPT !.readers = @ \cup {ReqTask}]
    /\ req' = [req EXCEPT !.pc = "require_write_access"]
    /\ UNCHANGED <<gate, response, mon, lock_frame>>

\* NostrClient::post_note: self.require_write_access()?
post_note_require ==
    /\ req.pc = "require_write_access"
    /\ IF require_write_access
       THEN /\ req' = [req EXCEPT !.pc = "send_event_builder"]
            /\ UNCHANGED <<client_lock, response>>
       ELSE /\ req' = Idle
            /\ client_lock' = [client_lock EXCEPT !.readers = @ \ {ReqTask}]
            /\ response' = NoWriteAccess
    /\ UNCHANGED <<gate, mon, lock_frame>>

\* NostrClient::post_note: send_event_builder signs with the client's signer;
\* the read guard is dropped when post_note returns
post_note_send ==
    /\ req.pc = "send_event_builder"
    /\ \/ response' = [op |-> "post_nostr_note", success |-> FALSE,
                       error |-> "publish_failed"]
       \/ response' = [op |-> "post_nostr_note", success |-> TRUE,
                       signed_by |-> client_signer]
    /\ client_lock' = [client_lock EXCEPT !.readers = @ \ {ReqTask}]
    /\ req' = Idle
    /\ UNCHANGED <<gate, mon, lock_frame>>

NextLock ==
    \/ lock_activate_begin
    \/ lock_disconnect_begin
    \/ lock_post_begin
    \/ \E t \in Tasks : client_write(t)
    \/ \E t \in Tasks : enable_set_signer(t)
    \/ \E t \in Tasks : enable_set_has_write_access(t)
    \/ \E t \in Tasks : enable_set_public_key(t)
    \/ \E t \in Tasks : enable_set_nip46_active(t)
    \/ disable_read_nip46_active
    \/ disable_clear_nip46_active
    \/ disable_clear_has_write_access
    \/ disable_clear_public_key
    \/ \E t \in Tasks : client_unlock(t)
    \/ client_read
    \/ post_note_require
    \/ post_note_send

SpecLock == InitLock /\ [][NextLock]_vars

\* ---- Nip46Session::parse_relay_urls (nip46.rs:316-330) ----------------------------
DEFAULT_NIP46_RELAYS == <<"wss://relay.nsec.app", "wss://relay.damus.io">>

\* sample entries of Nip46Config.relays; the last one is no relay URL
RelayStrs == {"wss://relay.nsec.app", "wss://relay.example", "ws://localhost:7777",
              "relay.example"}

\* RelayUrl::parse accepts the ws:// and wss:// URLs
RelayUrlParses(url) ==
    url \in {"wss://relay.nsec.app", "wss://relay.damus.io", "wss://relay.example",
             "ws://localhost:7777"}

\* the RelayUrl that RelayUrl::parse gives for a string it accepts
RelayUrl(url) == [relay_url |-> url]

\* iter().map(RelayUrl::parse).collect::<Result<Vec<_>>>(): the first Err ends it
RECURSIVE CollectRelayUrls(_)
CollectRelayUrls(relay_strs) ==
    IF relay_strs = <<>>
    THEN [ok |-> TRUE, urls |-> <<>>]
    ELSE IF ~RelayUrlParses(Head(relay_strs))
         THEN [ok |-> FALSE, error |-> Head(relay_strs)]
         ELSE LET rest == CollectRelayUrls(Tail(relay_strs))
              IN  IF rest.ok
                  THEN [ok |-> TRUE, urls |-> <<RelayUrl(Head(relay_strs))>> \o rest.urls]
                  ELSE rest

parse_relay_urls_adds_defaults(relays) ==
    CollectRelayUrls(relays \o DEFAULT_NIP46_RELAYS)

parse_relay_urls(relays) ==
    CollectRelayUrls(IF relays = <<>> THEN DEFAULT_NIP46_RELAYS ELSE relays)

RelayLists == UNION {[1..n -> RelayStrs] : n \in 0..MaxRelays}

\* A session is built with some relay list and parse_relay_urls is called on it;
\* req carries the configured list, response the value returned.
InitRelays ==
    /\ local_key = FALSE
    /\ NewClient(local_key)
    /\ state = Disconnected
    /\ signer = NoSigner
    /\ confirmed = {}
    /\ client_lock = Unlocked
    /\ polling = {}
    /\ shut = {}
    /\ \E relays \in RelayLists : req = [pc |-> "parse_relay_urls", relays |-> relays]
    /\ response = NoResponse
    /\ log = {}
    /\ mon = [i \in MonitorIds |-> NotSpawned]
    /\ spawned = 0
    /\ attempt = 0
    /\ ended = FALSE

parse_relay_urls_call ==
    /\ req.pc = "parse_relay_urls"
    /\ response' = parse_relay_urls(req.relays)
    /\ req' = [req EXCEPT !.pc = "returned"]
    /\ UNCHANGED <<session, gate, env, shut, log, mon, spawned, hist>>

NextRelays == parse_relay_urls_call

SpecRelays == InitRelays /\ [][NextRelays]_vars

\* ---- the Nip46Session API with wait_for_connection (nip46.rs:213-242) ----------------
\* No code of the program calls wait_for_connection. SpecApi is the session on
\* its own: one caller makes the start_client_connect, start_bunker_connect and
\* disconnect calls one after the other (req), and up to MaxMonitors other tasks
\* each call wait_for_connection once (mon[i], positions "wfc_...").
InitApi ==
    /\ local_key = FALSE
    /\ NewClient(local_key)
    /\ state = Disconnected
    /\ signer = NoSigner
    /\ confirmed = {}
    /\ client_lock = Unlocked
    /\ polling = {}
    /\ shut = {}
    /\ req = Idle
    /\ response = NoResponse
    /\ log = {}
    /\ mon = [i \in MonitorIds |-> NotSpawned]
    /\ spawned = 0
    /\ attempt = 0
    /\ ended = FALSE

\* start_client_connect or start_bunker_connect returns Ok to its caller
api_start_return ==
    /\ req.pc \in {"client_spawn", "activate_get_signer"}
    /\ response' = [op |-> "start_connect", success |-> TRUE]
    /\ req' = Idle
    /\ UNCHANGED <<session, gate, env, shut, log, mon, spawned, hist>>

\* disconnect returns Ok(()) to its caller
api_disconnect_return ==
    /\ req.pc = "disconnect_gate"
    /\ response' = [op |-> "disconnect", success |-> TRUE]
    /\ ended' = TRUE
    /\ req' = Idle
    /\ UNCHANGED <<session, gate, env, shut, log, mon, spawned, attempt, polling>>

\* wait_for_connection: signer_lock.clone().ok_or_else(..)?
wait_for_connection_clone(i) ==
    /\ mon[i].pc = "none"
    /\ mon' = [mon EXCEPT ![i] =
                  IF signer = NoSigner
                  THEN [@ EXCEPT !.pc = "wfc_err", !.attempt = attempt]
                  ELSE [@ EXCEPT !.pc = "wfc_get_public_key", !.signer = signer,
                                 !.attempt = attempt]]
    /\ UNCHANGED <<session, gate, env, shut, req, response, log, spawned, hist>>

\* wait_for_connection: signer.get_public_key().await. It fails on a timeout or
\* an error of the channel; it returns the user's key only from a signer that
\* has not been shut down.
wait_for_connection_get_public_key(i) ==
    /\ mon[i].pc = "wfc_get_public_key"
    /\ \/ /\ mon' = [mon EXCEPT ![i] =
                        [@ EXCEPT !.pc = "wfc_err", !.signer = NoSigner]]
          /\ UNCHANGED confirmed
       \/ /\ mon[i].signer \notin shut
          /\ \E pk \in RemotePks :
                mon' = [mon EXCEPT ![i] =
                           [@ EXCEPT !.pc = "wfc_store_state", !.signer = NoSigner,
                                     !.pubkey = pk]]
          /\ confirmed' = confirmed \cup {mon[i].signer}
    /\ UNCHANGED <<session, gate, local_key, client_lock, shut, req, response,
                   log, spawned, hist>>

\* wait_for_connection: *state = Connected { user_pubkey }; Ok(user_pubkey)
wait_for_connection_store_state(i) ==
    /\ mon[i].pc = "wfc_store_state"
    /\ state' = Connected(mon[i].pubkey)
    /\ mon' = [mon EXCEPT ![i] = [@ EXCEPT !.pc = "wfc_done"]]
    /\ UNCHANGED <<signer, gate, env, shut, req, response, log, spawned, hist>>

wait_for_connection(i) ==
    \/ wait_for_connection_clone(i)
    \/ wait_for_connection_get_public_key(i)
    \/ wait_for_connection_store_state(i)

NextApi ==
    \/ start_client_connect
    \/ start_bunker_connect
    \/ api_start_return
    \/ disconnect
    \/ api_disconnect_return
    \/ \E i \in MonitorIds : wait_for_connection(i)

SpecApi == InitApi /\ [][NextApi]_vars

\* ---- the readers of the session state, value by value ---------------------------
\* status_json (nip46.rs:285-313) and the monitor's is_connected test
\* (tools.rs:1125) are functions of the Nip46State value they read. No code path
\* of the program constructs Nip46State::Error, so SpecStates starts them from
\* every value of the enum (nip46.rs:39-56), with the session's signer present
\* or absent and the gate as NostrClient::new or enable_nip46_signer leaves it,
\* and runs nostr_connect_status and the monitor loop on it.
ErrorMsgs == {"timeout"}

Nip46States ==
    {Disconnected, WaitingForConnection(ConnectUri, QrPng)}
        \cup {Connected(pk) : pk \in RemotePks}
        \cup {Error(msg) : msg \in ErrorMsgs}

InitStates ==
    /\ local_key \in BOOLEAN
    /\ state \in Nip46States
    /\ signer \in {NoSigner, 1}
    /\ \/ NewClient(local_key)
       \/ /\ client_signer = 1
          /\ has_write_access = TRUE
          /\ public_key \in RemotePks
          /\ nip46_active = TRUE
    /\ confirmed = {}
    /\ client_lock = Unlocked
    /\ polling = {}
    /\ shut = {}
    /\ req = Idle
    /\ response = NoResponse
    /\ log = {}
    /\ mon = [i \in MonitorIds |-> [NotSpawned EXCEPT !.pc = "sleep"]]
    /\ spawned = MaxMonitors
    /\ attempt = 0
    /\ ended = FALSE

NextStates ==
    \/ nostr_connect_status
    \/ \E i \in MonitorIds : monitor(i)

SpecStates == InitStates /\ [][NextStates]_vars

\* ---- generate_qr_base64 (nip46.rs:343-402) ------------------------------------------
\* QrCode::new picks the smallest of the 40 QR versions that holds the data, or
\* fails when none does; version v has 17 + 4v modules a side (21..177).
QR_IMAGE_SIZE == 256

QrVersions == 1..40
ModuleCounts == {17 + 4 * v : v \in QrVersions}

\* code.width() of an accepted payload; QrRejected stands for QrCode::new -> Err
QrRejected == 0

\* let scale = (QR_IMAGE_SIZE / module_count).max(1)
qr_scale_swapped(module_count) == module_count \div QR_IMAGE_SIZE

qr_scale(module_count) ==
    IF QR_IMAGE_SIZE \div module_count >= 1
    THEN QR_IMAGE_SIZE \div module_count ELSE 1

\* let quiet_zone = scale * 2
qr_quiet_zone(module_count) == qr_scale(module_count) * 2

\* let img_size = module_count * scale + quiet_zone * 2
qr_img_size(module_count) ==
    module_count * qr_scale(module_count) + qr_quiet_zone(module_count) * 2

\* the put_pixel calls made for the dark module at column x, row y
qr_dark_pixels(module_count, x, y) ==
    LET scale == qr_scale(module_count)
        px == x * scale + qr_quiet_zone(module_count)
        py == y * scale + qr_quiet_zone(module_count)
        img_size == qr_img_size(module_count)
    IN  {p \in (px..(px + scale - 1)) \X (py..(py + scale - 1)) :
            p[1] < img_size /\ p[2] < img_size}

\* the caller hands over a payload: the QR encoder accepts it at some version or
\* rejects it
InitQr ==
    /\ \E w \in ModuleCounts \cup {QrRejected} :
          req = [pc |-> "qr_new", module_count |-> w]
    /\ local_key = FALSE
    /\ NewClient(local_key)
    /\ state = Disconnected
    /\ signer = NoSigner
    /\ confirmed = {}
    /\ client_lock = Unlocked
    /\ polling = {}
    /\ shut = {}
    /\ response = NoResponse
    /\ log = {}
    /\ mon = [i \in MonitorIds |-> NotSpawned]
    /\ spawned = 0
    /\ attempt = 0
    /\ ended = FALSE

qr_frame == <<session, gate, env, shut, log, mon, spawned, hist>>

\* QrCode::new(data.as_bytes()) fails: the error is returned
generate_qr_new_err ==
    /\ req.pc = "qr_new"
    /\ req.module_count = QrRejected
    /\ req' = [pc |-> "qr_done"]
    /\ response' = [op |-> "generate_qr_base64", ok |-> FALSE]
    /\ UNCHANGED qr_frame

\* QrCode::new succeeds; scale, quiet_zone, img_size; the white image
generate_qr_layout ==
    /\ req.pc = "qr_new"
    /\ req.module_count # QrRejected
    /\ req' = [pc |-> "qr_draw", module_count |-> req.module_count,
               scale |-> qr_scale(req.module_count),
               img_size |-> qr_img_size(req.module_count)]
    /\ UNCHANGED <<response, qr_frame>>

\* the drawing loop at one dark module (which modules are dark depends on the data)
generate_qr_draw ==
    /\ req.pc = "qr_draw"
    /\ \E x \in 0..(req.module_count - 1), y \in 0..(req.module_count - 1) :
          req' = [pc |-> "qr_module", module_count |-> req.module_count,
                  scale |-> req.scale, img_size |-> req.img_size,
                  x |-> x, y |-> y]
    /\ UNCHANGED <<response, qr_frame>>

\* PngEncoder::write_image of the img_size x img_size image, then Base64
generate_qr_encode ==
    /\ req.pc = "qr_module"
    /\ req' = [pc |-> "qr_done"]
    /\ response' = [op |-> "generate_qr_base64", ok |-> TRUE,
                    module_count |-> req.module_count,
                    png_pixels |-> req.img_size * req.img_size]
    /\ UNCHANGED qr_frame

NextQr ==
    \/ generate_qr_new_err
    \/ generate_qr_layout
    \/ generate_qr_draw
    \/ generate_qr_encode

SpecQr == InitQr /\ [][NextQr]_vars

\* ---- the program with the identity of every signer fixed ----------------------------
\* signer.get_public_key() (nip46.rs:190-193) answers with the user public key
\* of the remote signer behind the NostrConnect instance.  SpecIdentity is Spec
\* with that key as a function of the instance, so that a state tells which
\* identity an installed signer signs for.
UserPubkeyOf(s) == IF s = 1 THEN "pkA" ELSE "pkB"

InitIdentity ==
    /\ Init
    /\ signer # NoSigner => connected_pubkey = UserPubkeyOf(signer)

start_bunker_connect_probe_identity ==
    /\ start_bunker_connect_probe_ok
    /\ req'.pubkey = UserPubkeyOf(req.signer)

NextIdentity ==
    \/ start_bunker_connect_parse_err
    \/ start_bunker_connect_begin
    \/ start_bunker_connect_probe_err
    \/ start_bunker_connect_probe_identity
    \/ start_bunker_connect_store_signer
    \/ start_bunker_connect_store_state
    \/ activate_nip46_signer
    \/ nostr_connect_bunker_result
    \/ start_client_connect
    \/ nostr_connect_client_spawn
    \/ nostr_connect_status
    \/ nostr_disconnect
    \/ post_note
    \/ \E i \in MonitorIds : monitor(i)
    \/ remote_confirm

SpecIdentity == InitIdentity /\ [][NextIdentity]_vars

\* ---- steps of the request handler, as seen from outside ---------------------------
\* a nostr_connect with bunker_uri returns its error: from idle (URI parse or
\* signer construction) or from the awaited get_public_key probe
BunkerFailureReturn ==
    /\ req.pc \in {"idle", "bunker_probe"}
    /\ req' = Idle
    /\ req.pc = "idle" => attempt' # attempt
    /\ response'.op = "nostr_connect"
    /\ response'.mode = "bunker"
    /\ ~response'.success

DisconnectPcs == {"disconnect_shutdown", "disconnect_state", "disconnect_gate"}

\* a step of nostr_disconnect
DisconnectStep ==
    /\ req'.pc # req.pc
    /\ \/ req.pc \in DisconnectPcs
       \/ req.pc = "idle" /\ req'.pc \in DisconnectPcs

\* the step at which nostr_disconnect returns
DisconnectReturn ==
    /\ req.pc \in DisconnectPcs
    /\ req'.pc = "idle"

\* no pairing is active
NoPairingActive ==
    /\ state = Disconnected
    /\ signer = NoSigner
    /\ ~nip46_active

\* ---- claims -----------------------------------------------------------------------

\* C1: a monitor spawned by the generate-mode nostr_connect of attempt N never
\* calls enable_nip46_signer once a later nostr_connect call has begun.
C1_StaleMonitorNeverActivates ==
    [][\A i \in MonitorIds :
          (mon[i].pc = "enable" /\ mon'[i].pc = "done")
              => mon[i].attempt = attempt]_vars

\* C2: after nostr_disconnect has returned and until a fresh nostr_connect is
\* called, no step changes the gate: signer_active stays false and
\* has_write_access and public_key stay as the disconnect left them.
C2_NoGateMutationAfterDisconnect ==
    [][(ended /\ ended') => gate' = gate]_vars

\* C3: whenever the gate is remote-active and no nostr_disconnect is in progress,
\* the signer installed in the client has not been shut down.
C3_ActiveSignerNotShutDown ==
    (req.pc \notin DisconnectPcs /\ nip46_active) => client_signer \notin shut

\* C4: has_write_access is true if and only if public_key is Some.
C4_WriteAccessIffIdentity ==
    has_write_access <=> (public_key # NoPubkey)

\* C4 witness: a client built with a local key whose remote signer was enabled
\* and then disabled.
C4_Witness ==
    /\ local_key
    /\ client_signer \in SignerIds
    /\ ~nip46_active
    /\ response.op = "nostr_disconnect"

\* C5: with a local secret key configured, deactivating the remote signer falls
\* back to the local key: has_write_access is true and public_key is the local
\* public key.
C5_FallsBackToLocalKey ==
    [][(local_key /\ nip46_active /\ ~nip46_active')
          => (has_write_access' /\ public_key' = LocalPk)]_vars

\* C6: a nostr_connect with bunker_uri that fails (URI parse, signer
\* construction or get_public_key probe) returns the error from the handler
\* itself and leaves the gate as it was.
C6_DirectFailureLeavesGate ==
    [][BunkerFailureReturn => gate' = gate]_vars

\* C6 witness: a failed bunker connect has returned while the gate was
\* remote-active, and the gate still is.
C6_Witness ==
    /\ req.pc = "idle"
    /\ response = ConnectError("bunker")
    /\ nip46_active
    /\ has_write_access
    /\ public_key \in RemotePks

\* C7: after a failed nostr_connect with bunker_uri the session state is Error,
\* so status reports "error".
C7_DirectFailureSetsFailed ==
    (req.pc = "idle" /\ response = ConnectError("bunker"))
        => status_json.status = "error"

\* C8: a step of nostr_disconnect taken while no pairing is active changes
\* neither the session nor the gate, and the call returns success leaving no
\* pairing active, so that a second call finds the state of the first.
C8_DisconnectNoOpWhenIdle ==
    [][/\ (DisconnectStep /\ NoPairingActive)
            => /\ UNCHANGED <<state, signer, gate>>
               /\ req'.pc = "idle" => response' = [op |-> "nostr_disconnect",
                                                 success |-> TRUE]
       /\ DisconnectReturn => NoPairingActive']_vars

\* C8 witness: nostr_disconnect has returned on a client with a local key that
\* never had a remote signer; the local key still gives write access.
C8_Witness ==
    /\ req.pc = "idle"
    /\ response = [op |-> "nostr_disconnect", success |-> TRUE]
    /\ attempt = 0
    /\ local_key
    /\ has_write_access
    /\ public_key = LocalPk
    /\ client_signer = LocalKeys

\* C9: nostr_disconnect returns success from every session state, also when
\* shutdown reports an error; at its return the session is Disconnected, holds
\* no signer, and signer_active is false.
C9_DisconnectAlwaysSucceeds ==
    [][DisconnectReturn
          => /\ response'.op = "nostr_disconnect"
             /\ response'.success
             /\ status_json'.status = "disconnected"
             /\ signer' = NoSigner
             /\ ~is_nip46_active']_vars

\* C9 witness: nostr_disconnect has returned success although shutdown
\* reported an error.
C9_Witness ==
    /\ req.pc = "idle"
    /\ response.op = "nostr_disconnect"
    /\ response.success
    /\ "shutdown_error" \in log
    /\ state = Disconnected

\* C10: when the monitor of the current generate-mode attempt has used up all
\* its polls without seeing a confirmation, the session state is Error.
C10_TimeoutSetsFailed ==
    \A i \in MonitorIds :
        (/\ mon[i].pc = "exhausted"
         /\ mon[i].attempt = attempt
         /\ signer \notin confirmed
         /\ ~ended
         /\ req.pc = "idle")
            => status_json.status = "error"

\* C11: while a generate-mode attempt is the current attempt and the remote
\* signer has not confirmed it, status does not report "connected" and the
\* attempt's monitor neither is about to activate the gate nor has done so.
C11_UnconfirmedNeverConnected ==
    (CurrentGenerate /\ signer \notin confirmed)
        => /\ status_json.status # "connected"
           /\ \A i \in MonitorIds :
                 mon[i].attempt = attempt
                     => /\ mon[i].pc # "enable"
                        /\ mon[i].pubkey = NoPubkey

\* C11 witness: the current generate-mode attempt is unconfirmed, its monitor
\* has polled, and a status call has reported "waiting" with signer_active
\* false.
C11_Witness ==
    /\ \E i \in MonitorIds : mon[i].attempt = attempt /\ mon[i].polls >= 1
    /\ signer # NoSigner
    /\ signer \notin confirmed
    /\ req.pc = "idle"
    /\ response.op = "nostr_connect_status"
    /\ response.connection.status = "waiting"
    /\ ~response.signer_active

\* C12: when the remote signer has confirmed the current generate-mode attempt
\* while its monitor was polling, no disconnect intervened and the monitor has
\* finished, the session is Connected and the gate is remote-active with the
\* session's identity.
C12_ConfirmedAttemptActivates ==
    \A i \in MonitorIds :
        (/\ i \in polling
         /\ mon[i].pc \in {"done", "exhausted"}
         /\ mon[i].attempt = attempt
         /\ ~ended
         /\ req.pc = "idle")
            => /\ status_json.status = "connected"
               /\ is_nip46_active
               /\ has_write_access
               /\ public_key = connected_pubkey

\* the step at which a nostr_connect with bunker_uri returns success
BunkerSuccessReturn ==
    /\ req.pc = "bunker_status"
    /\ req'.pc = "idle"

\* C13: when a nostr_connect with bunker_uri returns success, the session is
\* Connected with the identity the result reports, and the gate is
\* remote-active with exactly that identity.
C13_DirectSuccessActivatesInline ==
    [][BunkerSuccessReturn
          => /\ response'.success
             /\ status_json'.status = "connected"
             /\ response'.user_pubkey = connected_pubkey'
             /\ is_nip46_active'
             /\ has_write_access'
             /\ public_key' = connected_pubkey']_vars

\* C14: once the session state is Connected or Error, the only change it
\* undergoes is the teardown to Disconnected.
C14_TerminalUntilTeardown ==
    [][(state.tag \in {"Connected", "Error"} /\ state' # state)
          => state' = Disconnected]_vars

\* C15: the session never steps from Connected{pk1} directly to Connected{pk2}
\* with pk2 different from pk1.
C15_ConnectedIdentityImmutable ==
    [][(state.tag = "Connected" /\ state'.tag = "Connected")
          => state'.user_pubkey = state.user_pubkey]_vars

\* the monitor tasks that have been spawned and have not finished
LiveMonitors ==
    {i \in MonitorIds : mon[i].pc \in {"sleep", "get_signer", "get_pubkey", "enable"}}

\* C16: at most one monitor task is live at any moment.
C16_AtMostOneLiveMonitor ==
    Cardinality(LiveMonitors) <= 1

\* a step of the write-gated tool
WriteOpStep ==
    /\ req.pc = "idle"
    /\ req' = req
    /\ response'.op = "post_nostr_note"
    /\ response' # response

\* C19: a write-gated tool called while has_write_access is false returns the
\* no-write-access error and changes nothing; and write access that an ended
\* pairing left false stays false until a fresh nostr_connect is called.
C19_NoWriteAccessUntilFreshConnect ==
    [][/\ (WriteOpStep /\ ~has_write_access)
            => (response' = NoWriteAccess /\ UNCHANGED <<session, gate, shut>>)
       /\ (ended /\ ended' /\ ~has_write_access) => ~has_write_access']_vars

\* an activation with the signer and identity the gate already holds
RedundantActivation(s, pk) == gate = <<s, TRUE, pk, TRUE>>

\* C20: enable_nip46_signer called with the signer and identity that the gate
\* already holds as remote-active leaves the gate as it is, for the monitor's
\* call and for the inline call.
C20_ActivateIdempotent ==
    [][/\ \A i \in MonitorIds :
             (/\ mon[i].pc = "enable"
              /\ mon'[i].pc = "done"
              /\ RedundantActivation(mon[i].signer, mon[i].pubkey))
                 => gate' = gate
       /\ (/\ req.pc = "activate_enable"
           /\ req'.pc = "bunker_status"
           /\ RedundantActivation(req.signer, req.pubkey))
              => gate' = gate]_vars

\* C20 witness: a bunker connect has returned success and a monitor has also
\* called enable_nip46_signer, both with the signer and identity the gate
\* holds.
C20_Witness ==
    /\ req.pc = "idle"
    /\ response.op = "nostr_connect"
    /\ response.success
    /\ response.mode = "bunker"
    /\ \E i \in MonitorIds :
          /\ mon[i].pc = "done"
          /\ mon[i].pubkey # NoPubkey
          /\ response.user_pubkey = mon[i].pubkey
          /\ gate = <<mon[i].signer, TRUE, mon[i].pubkey, TRUE>>

\* the tasks that are inside enable_nip46_signer or disable_nip46_signer
InWriteSection == {t \in Tasks : TaskPc(t) \in WritePcs}

ReaderHolds == ReqTask \in client_lock.readers

\* C17: while a write-gated call holds the client read guard, no task is inside
\* enable_nip46_signer or disable_nip46_signer, none of the four gate fields
\* changes, and the write access that require_write_access saw is still there
\* when the event is signed.
C17_ActivationAtomicForReaders ==
    [][ReaderHolds
          => /\ InWriteSection = {}
             /\ req.pc = "send_event_builder" => has_write_access
             /\ ReaderHolds' => gate' = gate]_vars

\* C17 witness: post_note holds the read guard between require_write_access and
\* signing while a monitor waits at client.write() with an activation that
\* would change the gate.
C17_Witness ==
    /\ ReaderHolds
    /\ req.pc = "send_event_builder"
    /\ \E i \in MonitorIds :
          /\ mon[i].pc = "enable"
          /\ <<mon[i].signer, mon[i].pubkey>> # <<client_signer, public_key>>

\* C18: at most one task is inside enable_nip46_signer or disable_nip46_signer,
\* and it holds the client write guard.
C18_GateMutationsExclusive ==
    /\ Cardinality(InWriteSection) <= 1
    /\ \A t \in InWriteSection : client_lock.writer = {t}

\* C18 witness: a monitor is halfway through enable_nip46_signer while the
\* request loop waits at client.write() for nostr_disconnect or for the inline
\* activation.
C18_Witness ==
    /\ \E i \in MonitorIds : mon[i].pc = "set_public_key"
    /\ req.pc \in {"activate_enable", "disconnect_gate"}

\* the number of steps a monitor task has left at most
MonitorRank(m) ==
    CASE m.pc = "sleep" -> 4 + (MaxPolls - m.polls)
      [] m.pc = "get_signer" -> 3
      [] m.pc = "get_pubkey" -> 2
      [] m.pc = "enable" -> 1
      [] OTHER -> 0

\* C21: every step of a spawned monitor brings it closer to its end: it has
\* polled fewer than MaxPolls times while it sleeps, a poll that sees the
\* session Connected leaves the loop, and no step lets it start over. The 60
\* iterations of 2 s are the 120 s of DEFAULT_NIP46_TIMEOUT_SECS.
C21_MonitorTerminates ==
    [][/\ MonitorIterations * MonitorSleepSecs = DEFAULT_NIP46_TIMEOUT_SECS
       /\ \A i \in MonitorIds :
             (mon[i].pc # "none" /\ mon'[i] # mon[i])
                => /\ mon[i].polls < MaxPolls
                   /\ MonitorRank(mon'[i]) < MonitorRank(mon[i])
                   /\ (mon[i].pc = "sleep" /\ is_connected)
                         => mon'[i].pc = "get_signer"]_vars

\* C21 witness: one monitor has run out of polls and another has left its loop
\* after seeing the session Connected.
C21_Witness ==
    \E i, j \in MonitorIds :
        /\ mon[i].pc = "exhausted"
        /\ mon[j].pc = "done"
        /\ mon[j].pubkey # NoPubkey

\* a step of the nostr_connect_status handler
StatusStep ==
    \/ req.pc = "idle" /\ req'.pc = "status_gate"
    \/ req.pc = "status_gate" /\ req'.pc = "idle"

\* C22: a step of nostr_connect_status leaves the session state, the session's
\* signer, has_write_access, public_key and nip46_active as they were.
C22_StatusHasNoSideEffects ==
    [][StatusStep
          => UNCHANGED <<state, signer, has_write_access, public_key,
                         nip46_active>>]_vars

\* C22 witness: nostr_connect_status has answered "waiting" while a monitor is
\* between two polls of the pending handshake.
C22_Witness ==
    /\ req.pc = "idle"
    /\ response.op = "nostr_connect_status"
    /\ response.connection.status = "waiting"
    /\ state.tag = "WaitingForConnection"
    /\ \E i \in MonitorIds : mon[i].pc = "sleep" /\ mon[i].polls >= 1

\* C23: whenever nip46_active is true, also between two assignments of
\* enable_nip46_signer or disable_nip46_signer, the client holds a remote signer
\* and has_write_access is true.
C23_RemoteImpliesSignerInstalled ==
    nip46_active => (client_signer \in SignerIds /\ has_write_access)

\* C23 witness: a second activation is under way on a gate that is already
\* remote-active: the new signer is installed, public_key is still the old one.
C23_Witness ==
    /\ nip46_active
    /\ \E t \in Tasks :
          /\ TaskPc(t) = "set_public_key"
          /\ client_signer = TaskSigner(t)
          /\ public_key # TaskPubkey(t)

\* the step in which a generate-mode nostr_connect fails
ClientErrStep ==
    /\ req.pc = "idle"
    /\ req'.pc = "idle"
    /\ attempt' # attempt
    /\ response' = ConnectError("client")

\* C24: the step in which a generate-mode nostr_connect fails returns the error
\* and leaves the session state, the session's signer, the gate and the
\* monitors as they were; no monitor is spawned.
C24_GenerateFailureChangesNothing ==
    [][ClientErrStep => UNCHANGED <<session, gate, mon, spawned>>]_vars

\* C24 witness: a generate-mode nostr_connect has failed on a session that is
\* Connected with the gate remote-active, and both are still so.
C24_Witness ==
    /\ req.pc = "idle"
    /\ response = ConnectError("client")
    /\ state.tag = "Connected"
    /\ signer # NoSigner
    /\ nip46_active
    /\ spawned = 0

\* the step in which a generate-mode nostr_connect returns its result
ClientSuccessReturn == req.pc = "client_spawn" /\ req'.pc = "idle"

\* C25: when a generate-mode nostr_connect returns, the result carries a
\* non-empty connect_uri and qr_base64, the session is WaitingForConnection with
\* exactly these two values and holds a signer, and status_json reports the same
\* URI; from the store of the signer to the return the session's signer is the
\* one the call created.
C25_GenerateSuccessHoldsArtifact ==
    [][/\ ClientSuccessReturn
            => /\ response'.success
               /\ response'.connect_uri # ""
               /\ response'.qr_base64 # ""
               /\ state' = WaitingForConnection(response'.connect_uri,
                                                response'.qr_base64)
               /\ signer' # NoSigner
               /\ status_json'.status = "waiting"
               /\ status_json'.connect_uri = response'.connect_uri
       /\ req.pc \in {"client_store_state", "client_spawn"} => signer' = signer]_vars

\* C25 witness: a second or later nostr_connect, in generate mode, has returned
\* and the session waits with the returned URI and QR code.
C25_Witness ==
    /\ req.pc = "idle"
    /\ response.op = "nostr_connect"
    /\ response.mode = "client"
    /\ response.success
    /\ state = WaitingForConnection(response.connect_uri, response.qr_base64)
    /\ signer # NoSigner
    /\ attempt >= 2

\* no request has been handled or begun since McpServer::new
BeforeFirstRequest ==
    /\ req = Idle
    /\ response = NoResponse
    /\ attempt = 0
    /\ ~ended

\* C26: before the first request is served the session is Disconnected without
\* a signer, its status reports "disconnected", and the gate is not
\* remote-active.
C26_StartsDisconnected ==
    BeforeFirstRequest
        => /\ state = Disconnected
           /\ signer = NoSigner
           /\ status_json.status = "disconnected"
           /\ ~is_nip46_active

\* C27: parse_relay_urls on an empty relay list gives the parsed default relays,
\* one per default entry; on a non-empty list whose entries all parse it gives
\* one parsed URL per entry in the configured order and no default; and it
\* fails as a whole when an entry does not parse.
C27_RelaySelection ==
    req.pc = "returned"
        => LET relays == req.relays
               out == response
           IN  /\ relays = <<>>
                    => /\ out.ok
                       /\ Len(out.urls) = Len(DEFAULT_NIP46_RELAYS)
                       /\ \A k \in 1..Len(DEFAULT_NIP46_RELAYS) :
                             out.urls[k] = RelayUrl(DEFAULT_NIP46_RELAYS[k])
               /\ (relays # <<>> /\ \A k \in 1..Len(relays) : RelayUrlParses(relays[k]))
                    => /\ out.ok
                       /\ Len(out.urls) = Len(relays)
                       /\ \A k \in 1..Len(relays) : out.urls[k] = RelayUrl(relays[k])
               /\ (\E k \in 1..Len(relays) : ~RelayUrlParses(relays[k])) => ~out.ok

\* C27 witness: parse_relay_urls has returned the URLs of a list of MaxRelays
\* entries that does not start with a default relay.
C27_Witness ==
    /\ req.pc = "returned"
    /\ Len(req.relays) = MaxRelays
    /\ req.relays[1] = "ws://localhost:7777"
    /\ req.relays[2] # req.relays[1]
    /\ response.ok

\* C28: from the return of Nip46Session::disconnect to the next call of
\* start_client_connect or start_bunker_connect the session state is
\* Disconnected, whatever a wait_for_connection that was already under way does.
C28_DisconnectedAfterTeardown ==
    ended => state = Disconnected

\* C29: the step in which a monitor calls enable_nip46_signer ends the monitor,
\* and a monitor that has ended takes no further step, so it calls
\* enable_nip46_signer at most once.
C29_MonitorActivatesAtMostOnce ==
    [][\A i \in MonitorIds :
          /\ (mon[i].pc = "enable" /\ mon'[i] # mon[i]) => mon'[i].pc = "done"
          /\ mon[i].pc \in {"done", "exhausted"} => mon'[i] = mon[i]]_vars

\* C29 witness: a monitor has called enable_nip46_signer and ended, and the
\* pairing has since been disconnected.
C29_Witness ==
    /\ ended
    /\ req.pc = "idle"
    /\ \E i \in MonitorIds : mon[i].pc = "done" /\ mon[i].pubkey # NoPubkey

\* the monitors that have been spawned
SpawnedMonitors == {i \in MonitorIds : mon[i].pc # "none"}

\* C30: the step in which a generate-mode nostr_connect returns its result
\* spawns exactly one monitor, on a session that is WaitingForConnection; no
\* other step spawns a monitor, in particular no step of a direct-mode
\* nostr_connect.
C30_OneMonitorPerGenerateConnect ==
    [][/\ ClientSuccessReturn
            => /\ state.tag = "WaitingForConnection"
               /\ spawned' = spawned + 1
               /\ Cardinality(SpawnedMonitors') = Cardinality(SpawnedMonitors) + 1
               /\ \A i \in SpawnedMonitors : mon'[i] = mon[i]
       /\ ~ClientSuccessReturn
            => (spawned' = spawned /\ SpawnedMonitors' = SpawnedMonitors)]_vars

\* C30 witness: a generate-mode and then a direct-mode nostr_connect have
\* returned, and there is one monitor.
C30_Witness ==
    /\ req.pc = "idle"
    /\ response.op = "nostr_connect"
    /\ response.success
    /\ response.mode = "bunker"
    /\ spawned = 1
    /\ Cardinality(SpawnedMonitors) = 1

C32_StatusPayload ==
    [][(req.pc = "status_gate" /\ req'.pc = "idle")
          => LET c == response'.connection
                 StatusOf(st) ==
                     CASE st.tag = "Disconnected" -> "disconnected"
                       [] st.tag = "WaitingForConnection" -> "waiting"
                       [] st.tag = "Connected" -> "connected"
                       [] st.tag = "Error" -> "error"
             IN
             /\ response'.signer_active = nip46_active
             /\ c.status = StatusOf(state)
             /\ state.tag = "WaitingForConnection"
                   => /\ c.connect_uri = state.connect_uri
                      /\ c.qr_base64 = state.qr_base64
             /\ state.tag = "Connected" => c.user_pubkey = state.user_pubkey
             /\ state.tag = "Error" => c.message = state.message]_vars

\* C32 witness: nostr_connect_status has answered "connected" with the identity
\* and signer_active false for a Connected session whose signer the gate has
\* not taken.
C32_Witness ==
    /\ req.pc = "idle"
    /\ response.op = "nostr_connect_status"
    /\ response.connection.status = "connected"
    /\ response.signer_active = FALSE
    /\ state.tag = "Connected"
    /\ response.connection.user_pubkey = state.user_pubkey
    /\ ~nip46_active

\* C33: for every QR module count (21..177) the scale is at least 1, the image
\* side is module_count * scale + 4 * scale, every pixel written for a dark
\* module lies inside the image and the whole module is drawn, and the PNG made
\* of an accepted payload is not empty.
C33_QrFitsImage ==
    /\ req.pc \in {"qr_draw", "qr_module"}
          => /\ req.module_count \in 21..177
             /\ req.scale >= 1
             /\ req.img_size = req.module_count * req.scale + 4 * req.scale
    /\ req.pc = "qr_module"
          => LET written == qr_dark_pixels(req.module_count, req.x, req.y) IN
             /\ \A p \in written :
                   p[1] \in 0..(req.img_size - 1) /\ p[2] \in 0..(req.img_size - 1)
             /\ Cardinality(written) = req.scale * req.scale
    /\ (response.op = "generate_qr_base64" /\ response.ok)
          => response.png_pixels > 0

\* C33 witness: the last module of the largest QR code (177 modules a side,
\* scale 1) has been drawn.
C33_Witness ==
    /\ req.pc = "qr_module"
    /\ req.module_count = 177
    /\ req.scale = 1
    /\ req.x = 176
    /\ req.y = 176
    /\ qr_dark_pixels(req.module_count, req.x, req.y) = {<<178, 178>>}

\* C34: whenever the gate is remote-active, its public_key is the identity the
\* installed signer signs for: the signer and the identity come from the same
\* pairing attempt.
C34_SignerMatchesIdentity ==
    nip46_active => public_key = UserPubkeyOf(client_signer)

\* C35: signer_active implies that the session is Connected: an answer of
\* nostr_connect_status with signer_active true has the status "connected".
C35_ActiveImpliesConnected ==
    (response.op = "nostr_connect_status" /\ response.signer_active)
        => response.connection.status = "connected"

\* C36: at quiescence (no request being handled, no monitor still in its loop) a
\* session in state Connected{pk} has the gate remote-active with
\* public_key = pk; the start-up state is such a state.
C36_ConnectedImpliesActiveAtRest ==
    (/\ req.pc = "idle"
     /\ LiveMonitors = {}
     /\ state.tag = "Connected")
        => /\ nip46_active
           /\ public_key = state.user_pubkey

\* C37: whenever no call of the session is in progress, the state is
\* WaitingForConnection or Connected exactly if the session holds a signer (so
\* a Disconnected session holds none).
C37_StateMatchesSigner ==
    (/\ req.pc = "idle"
     /\ \A i \in MonitorIds : mon[i].pc \in {"none", "wfc_err", "wfc_done"})
        => (state.tag \in {"WaitingForConnection", "Connected"}
               <=> signer # NoSigner)

\* C38: a step that replaces the session's signer by the signer of a new
\* attempt leaves the replaced signer shut down; stated for a replaced signer
\* that the gate or a monitor still holds, which nothing else will stop.
C38_ReplacedSignerShutDown ==
    [][(/\ signer # NoSigner
        /\ signer' \notin {NoSigner, signer}
        /\ signer \in LiveSigners')
          => signer \in shut']_vars
====
